---- MODULE Spec2Model ----
(***************************************************************************)
(* A model of scrape.py: the row parser (parse_page), the Strategy A total *)
(* estimator (find_total_participants), the named-subset estimator         *)
(* (find_participants_for_name), the history store (load_entries,          *)
(* write_entries) and one run of main.                                     *)
(*                                                                         *)
(* Text is a sequence of one-character strings, so that the CSV reader and *)
(* writer, int(), str() and strip() are computed character by character.   *)
(* The alphabet holds no double quote: the quoted-field states of the csv  *)
(* reader and the quoting of the csv writer are therefore never entered.   *)
(* int() is modelled for surrounding blanks, an optional sign and decimal  *)
(* digits (no underscores, no non-ASCII digits).                           *)
(***************************************************************************)
EXTENDS Integers, Sequences, FiniteSets, TLC

VARIABLES
    pc,                 \* position of the driver: see each specification
    file,               \* data.csv: [exists, data], data a sequence of characters
    fileBefore,         \* history: data.csv as it was when the run started
    entries,            \* main's / the harness's list of (timestamp, total, rueweler_count)
    runs,               \* number of runs of main started so far
    failed,             \* the current run died of an exception raised by urlopen
    stamp,              \* main's timestamp
    total_participants, \* main's total_participants
    est,                \* the estimator's frames: see EstInit
    html, page, parsed  \* the row parser's input and output

vars == <<pc, file, fileBefore, entries, runs, failed, stamp,
          total_participants, est, html, page, parsed>>

(***************************************************************************)
(* Bounds                                                                  *)
(***************************************************************************)
MaxRows == 2
MaxPage == 3
MaxNameLen == 2
MaxLines == 2
MaxRuns == 2

(***************************************************************************)
(* Characters, str.strip, str.isdigit, int and str                         *)
(***************************************************************************)
Digits == <<"0", "1", "2", "3", "4", "5", "6", "7", "8", "9">>

Whitespace == {" ", "\t", "\r", "\n"}

IsDigitChar(c) == \E d \in 1..10 : Digits[d] = c

DigitVal(c) == (CHOOSE d \in 1..10 : Digits[d] = c) - 1

RECURSIVE NatVal(_)
NatVal(s) ==
    IF s = <<>> THEN 0
    ELSE NatVal(SubSeq(s, 1, Len(s) - 1)) * 10 + DigitVal(s[Len(s)])

RECURSIVE NatStr(_)
NatStr(n) ==
    IF n < 10 THEN <<Digits[n + 1]>>
    ELSE NatStr(n \div 10) \o <<Digits[(n % 10) + 1]>>

\* str(n) of an int
IntStr(n) == IF n < 0 THEN <<"-">> \o NatStr(0 - n) ELSE NatStr(n)

RECURSIVE LStrip(_)
LStrip(s) == IF s # <<>> /\ s[1] \in Whitespace THEN LStrip(Tail(s)) ELSE s

RECURSIVE RStrip(_)
RStrip(s) ==
    IF s # <<>> /\ s[Len(s)] \in Whitespace
    THEN RStrip(SubSeq(s, 1, Len(s) - 1)) ELSE s

\* str.strip()
Strip(s) == RStrip(LStrip(s))

\* str.isdigit(): non-empty and every character a digit
IsDigitStr(s) == s # <<>> /\ \A i \in 1..Len(s) : IsDigitChar(s[i])

\* int(s): <<n>> when s parses, <<>> when int raises ValueError
ParseInt(s) ==
    LET t == Strip(s)
        signed == t # <<>> /\ t[1] \in {"+", "-"}
        body == IF signed THEN Tail(t) ELSE t
    IN  IF ~IsDigitStr(body) THEN <<>>
        ELSE IF signed /\ t[1] = "-" THEN <<0 - NatVal(body)>>
        ELSE <<NatVal(body)>>

RECURSIVE Concat(_)
Concat(ss) == IF ss = <<>> THEN <<>> ELSE Head(ss) \o Concat(Tail(ss))

(***************************************************************************)
(* History store                                                           *)
(***************************************************************************)
SeedTimestamp ==
    <<"2", "0", "2", "5", "-", "1", "2", "-", "2", "0", "T",
      "1", "1", ":", "5", "1", ":", "0", "0">>

\* An entry is <<timestamp, count, rueweler_count>>; rueweler_count is <<n>>
\* for the int n and <<>> for None.
DEFAULT_ENTRY == <<SeedTimestamp, 1784, <<0>>>>

NoFile == [exists |-> FALSE, data |-> <<>>]

\* csv.reader over a file opened with newline="": the rows of `data`, each a
\* sequence of fields. A line ends at \n, \r\n or a lone \r; an empty line is
\* the empty row; the last line needs no terminator.
RECURSIVE CsvScan(_, _, _, _, _)
CsvScan(data, i, field, row, started) ==
    IF i > Len(data)
    THEN IF started THEN <<Append(row, field)>> ELSE <<>>
    ELSE LET c == data[i]
             done == IF started THEN Append(row, field) ELSE <<>>
         IN  IF c = "\n"
             THEN <<done>> \o CsvScan(data, i + 1, <<>>, <<>>, FALSE)
             ELSE IF c = "\r"
             THEN <<done>> \o CsvScan(data,
                                      IF i < Len(data) /\ data[i + 1] = "\n"
                                      THEN i + 2 ELSE i + 1,
                                      <<>>, <<>>, FALSE)
             ELSE IF c = ","
             THEN CsvScan(data, i + 1, <<>>, Append(row, field), TRUE)
             ELSE CsvScan(data, i + 1, Append(field, c), row, TRUE)

CsvRows(data) == CsvScan(data, 1, <<>>, <<>>, FALSE)

\* The body of load_entries' loop on one row: the entries it appends.
RowEntriesSkipBadThird(row) ==
    IF Len(row) < 2 THEN <<>>
    ELSE LET timestamp == Strip(row[1])
             count == ParseInt(row[2])
             third == IF Len(row) >= 3 /\ Strip(row[3]) # <<>>
                      THEN ParseInt(row[3]) ELSE <<0>>
         IN  IF count = <<>> \/ third = <<>> \/ timestamp = <<>> THEN <<>>
             ELSE <<<<timestamp, count[1],
                      IF Len(row) >= 3 /\ Strip(row[3]) # <<>>
                      THEN third ELSE <<>>>>>>

RowEntries(row) ==
    IF Len(row) < 2 THEN <<>>
    ELSE LET timestamp == Strip(row[1])
             count == ParseInt(row[2])
             rueweler_count == IF Len(row) >= 3 /\ Strip(row[3]) # <<>>
                               THEN ParseInt(row[3]) ELSE <<>>
         IN  IF count = <<>> THEN <<>>
             ELSE IF timestamp # <<>>
             THEN <<<<timestamp, count[1], rueweler_count>>>>
             ELSE <<>>

RECURSIVE ReadEntries(_)
ReadEntries(rows) ==
    IF rows = <<>> THEN <<>>
    ELSE RowEntries(Head(rows)) \o ReadEntries(Tail(rows))

load_entries(f) ==
    IF ~f.exists \/ Len(f.data) = 0 THEN <<DEFAULT_ENTRY>>
    ELSE LET got == ReadEntries(CsvRows(f.data))
         IN  IF got = <<>> THEN <<DEFAULT_ENTRY>> ELSE got

\* csv.writer.writerow([timestamp, total, "" or rueweler_count])
WriteRowLF(e) ==
    e[1] \o <<",">> \o IntStr(e[2]) \o <<",">>
         \o (IF e[3] = <<>> THEN <<>> ELSE IntStr(e[3][1])) \o <<"\n">>

WriteRow(e) ==
    e[1] \o <<",">> \o IntStr(e[2]) \o <<",">>
         \o (IF e[3] = <<>> THEN <<>> ELSE IntStr(e[3][1])) \o <<"\r", "\n">>

RECURSIVE WriteRows(_)
WriteRows(es) ==
    IF es = <<>> THEN <<>> ELSE WriteRow(Head(es)) \o WriteRows(Tail(es))

\* The file write_entries leaves behind.
write_entries(es) == [exists |-> TRUE, data |-> WriteRows(es)]

(***************************************************************************)
(* Row parser                                                              *)
(***************************************************************************)
\* A page's markup, as far as parse_page reads it: `rows` are the
\* li.list-group-item.row elements of the pid-startlist_list container
\* (none when there is no container), each a genuine row ("row"), a header
\* row ("header") or a "no results" row ("noresults"); `table` is the number
\* of tr elements with a td in the first table, -1 when there is no table; `links` are the labels of the
\* links of ul.pagination (none when there is no such list).
PageResult(p, n, l) == [page |-> p, participant_count |-> n, last_page |-> l]

NoPage == PageResult(0, 0, 0)

Max(S) == CHOOSE m \in S : \A x \in S : x <= m

IsGenuine(r) == r = "row"

NumericLabels(h) == {NatVal(l) : l \in {x \in h.links : IsDigitStr(x)}}

RowCount(h) ==
    LET rows == SelectSeq(h.rows, IsGenuine)
    IN  IF Len(rows) > 0 THEN Len(rows)
        ELSE IF h.table = -1 THEN 0
        ELSE h.table

parse_page_LabelsOnly(h, p) ==
    PageResult(p, RowCount(h),
               IF NumericLabels(h) = {} THEN p ELSE Max(NumericLabels(h)))

parse_page(h, p) == PageResult(p, RowCount(h), Max({p} \cup NumericLabels(h)))

(***************************************************************************)
(* The remote site: the markup a fetch may return                          *)
(***************************************************************************)
SeqsUpTo(S, n) == UNION {[1..k -> S] : k \in 0..n}

LinkLabels == {NatStr(n) : n \in 1..MaxPage} \cup {<<">">>}

\* Every page of up to MaxRows list-group rows (genuine or header), with or
\* without a table, with any of the pagination labels 1..MaxPage and ">"
FullSite ==
    [rows : SeqsUpTo({"row", "header"}, MaxRows), table : -1..MaxRows,
     links : SUBSET LinkLabels]

\* The pages served during runs of main: an empty listing, a single page, and
\* pages of a two-page listing (list-group and table layout).
MainSite ==
    { [rows |-> <<"header", "noresults">>, table |-> -1, links |-> {}],
      [rows |-> <<"header", "row">>, table |-> -1, links |-> {<<"1">>}],
      [rows |-> <<"header", "row", "row">>, table |-> -1,
       links |-> {<<"1">>, <<"2">>, <<">">>}],
      [rows |-> <<>>, table |-> 1, links |-> {<<"1">>}] }

(***************************************************************************)
(* URL templates                                                           *)
(***************************************************************************)
\* urllib.parse.quote on the characters used here
QuoteChar(c) ==
    CASE c = " " -> <<"%", "2", "0">>
      [] c = "ü" -> <<"%", "C", "3", "%", "B", "C">>
      [] OTHER -> <<c>>

RECURSIVE Quote(_)
Quote(s) == IF s = <<>> THEN <<>> ELSE QuoteChar(Head(s)) \o Quote(Tail(s))

\* A template is the fixed query plus the search[name] parameter: <<>> when
\* the parameter is absent, <<encoded_name>> when it is given.
BASE_URL == [pid |-> "startlist_list", search |-> <<>>]

build_name_url_template(n) == [pid |-> "startlist_list", search |-> <<Quote(n)>>]

Rueweler == <<"r", "ü", "w", "e", "l", "e", "r">>

(***************************************************************************)
(* Estimators                                                              *)
(***************************************************************************)
\* est holds the frames of find_participants_for_name (name, count,
\* fallback_count, result) and of the find_total_participants call in
\* progress (url_template, first_page, last_page_result), with
\*   call     which call of find_total_participants is or was last in progress
\*   ftp      the fetch that call waits for: "first", "second", "none"
\*   fetched  history: the pages the last call asked fetch_page_html for
\*   returned history: the last fetch made find_total_participants return
\*   ret      the value it returned
\*   queries  history: the templates find_participants_for_name has built
\*   named    find_participants_for_name has returned `result`
EstInit ==
    [call |-> "none", ftp |-> "none", url_template |-> BASE_URL,
     first_page |-> NoPage, last_page_result |-> NoPage, fetched |-> <<>>,
     returned |-> FALSE, ret |-> 0,
     name |-> <<>>, queries |-> <<>>, count |-> 0, fallback_count |-> 0,
     result |-> 0, named |-> FALSE]

\* find_total_participants(url) is entered: it waits for page 1
CallTotal(s, c, url) == [s EXCEPT !.call = c, !.ftp = "first", !.url_template = url]

\* find_participants_for_name(n) is entered, up to its first fetch
CallName(s, n) ==
    CallTotal([s EXCEPT !.name = n, !.named = FALSE, !.count = 0,
                        !.fallback_count = 0, !.result = 0,
                        !.queries = <<build_name_url_template(n)>>],
              "name", build_name_url_template(n))

NeedsSecondFetchNoZeroCheck(fp) == fp.last_page > 1

\* find_total_participants goes on to the last page
NeedsSecondFetch(fp) == fp.participant_count # 0 /\ fp.last_page > 1

TotalFromFirstLastPage(fp, lp) ==
    (fp.last_page - 1) * fp.participant_count + lp.participant_count

TotalFromPages(fp, lp) ==
    LET page_size == fp.participant_count
    IN  (lp.last_page - 1) * page_size + lp.participant_count

HasSpace(n) == \E i \in 1..Len(n) : n[i] = " "

NeedsFallbackAnyName(n, c) == c = 0 /\ Len(n) > 1

NeedsFallback(n, c) == c = 0 /\ ~HasSpace(n) /\ Len(n) > 1

\* find_participants_for_name from the return of a find_total_participants
\* call (s.ret) to its next fetch or its own return
AfterNameQuery(s) ==
    IF s.call = "name"
    THEN IF NeedsFallback(s.name, s.ret)
         THEN LET fallback_name == Tail(s.name)
                  fallback_template == build_name_url_template(fallback_name)
              IN  CallTotal([s EXCEPT !.count = s.ret,
                                      !.queries = Append(@, fallback_template)],
                            "fallback", fallback_template)
         ELSE [s EXCEPT !.count = s.ret, !.result = s.ret, !.named = TRUE]
    ELSE [s EXCEPT !.fallback_count = s.ret,
                   !.result = IF s.ret > 0 THEN s.ret ELSE s.count,
                   !.named = TRUE]

(***************************************************************************)
(* main and the fetches                                                    *)
(***************************************************************************)
\* datetime.now().isoformat(timespec="seconds"): the clock of run number r
Now(r) == <<"t">> \o NatStr(r)

AppendEntryOnly(es, e) == <<e>>

\* entries.append(...)
AppendEntry(es, e) == Append(es, e)

\* main after find_participants_for_name has returned (s.result): timestamp,
\* append, write_entries, exit
MainFinish(s) ==
    /\ est' = s
    /\ stamp' = Now(runs)
    /\ entries' = AppendEntry(entries, <<stamp', total_participants, <<s.result>>>>)
    /\ file' = write_entries(entries')
    /\ pc' = "idle"
    /\ UNCHANGED <<fileBefore, runs, failed, total_participants, html, page, parsed>>

\* find_total_participants returns v: its caller runs on, to the next fetch
\* or to the end of the program
ReturnTotal(s0, v) ==
    LET s == [s0 EXCEPT !.ret = v, !.returned = TRUE, !.ftp = "none"]
    IN  IF s.call = "base"
        THEN /\ total_participants' = v
             /\ est' = CallName(s, Rueweler)
             /\ UNCHANGED <<pc, file, fileBefore, entries, runs, failed, stamp,
                            html, page, parsed>>
        ELSE LET t == AfterNameQuery(s)
             IN  IF ~t.named
                 THEN /\ est' = t
                      /\ UNCHANGED <<pc, file, fileBefore, entries, runs, failed,
                                     stamp, total_participants, html, page, parsed>>
                 ELSE IF pc = "run"
                 THEN MainFinish(t)
                 ELSE /\ est' = t
                      /\ pc' = "done"
                      /\ UNCHANGED <<file, fileBefore, entries, runs, failed, stamp,
                                     total_participants, html, page, parsed>>

\* main starts: load_entries, then find_total_participants(BASE_URL) up to
\* its first fetch
StartRun ==
    /\ pc = "idle"
    /\ runs < MaxRuns
    /\ pc' = "run"
    /\ runs' = runs + 1
    /\ fileBefore' = file
    /\ entries' = load_entries(file)
    /\ failed' = FALSE
    /\ stamp' = <<>>
    /\ total_participants' = 0
    /\ est' = CallTotal(EstInit, "base", BASE_URL)
    /\ UNCHANGED <<file, html, page, parsed>>

\* fetch_page_participants(1, url_template) answers
FetchFirst(site) ==
    /\ est.ftp = "first"
    /\ \E h \in site :
          LET first_page == parse_page(h, 1)
              s == [est EXCEPT !.first_page = first_page,
                               !.last_page_result = NoPage,
                               !.fetched = <<1>>]
          IN  IF NeedsSecondFetch(first_page)
              THEN /\ est' = [s EXCEPT !.ftp = "second", !.returned = FALSE]
                   /\ UNCHANGED <<pc, file, fileBefore, entries, runs, failed,
                                  stamp, total_participants, html, page, parsed>>
              ELSE ReturnTotal(s, IF first_page.participant_count = 0
                                  THEN 0 ELSE first_page.participant_count)

\* fetch_page_participants(first_page.last_page, url_template) answers
FetchSecond(site) ==
    /\ est.ftp = "second"
    /\ \E h \in site :
          LET last_page_result == parse_page(h, est.first_page.last_page)
              s == [est EXCEPT !.last_page_result = last_page_result,
                               !.fetched = Append(@, est.first_page.last_page)]
          IN  ReturnTotal(s, TotalFromPages(est.first_page, last_page_result))

\* The page the call in progress asks for next
NextPage == IF est.ftp = "first" THEN 1 ELSE est.first_page.last_page

FetchFailSwallowed ==
    /\ est.ftp \in {"first", "second"}
    /\ failed' = TRUE
    /\ LET s == [est EXCEPT !.ftp = "none", !.returned = FALSE, !.ret = 0,
                            !.fetched = IF est.ftp = "first" THEN <<1>>
                                        ELSE Append(@, NextPage),
                            !.named = TRUE]
       IN  IF pc = "run"
           THEN /\ est' = s
                /\ stamp' = Now(runs)
                /\ entries' = AppendEntry(entries, <<stamp', total_participants, <<0>>>>)
                /\ file' = write_entries(entries')
                /\ pc' = "idle"
                /\ UNCHANGED <<fileBefore, runs, total_participants, html, page, parsed>>
           ELSE /\ est' = s
                /\ pc' = "done"
                /\ UNCHANGED <<file, fileBefore, entries, runs, stamp,
                               total_participants, html, page, parsed>>

\* urlopen raises (timeout, connection failure, HTTP error): nothing catches
\* the exception, the program exits
FetchFail ==
    /\ est.ftp \in {"first", "second"}
    /\ failed' = TRUE
    /\ est' = [est EXCEPT !.ftp = "none", !.returned = FALSE,
                          !.first_page = IF est.ftp = "first" THEN NoPage ELSE @,
                          !.last_page_result = NoPage,
                          !.fetched = IF est.ftp = "first" THEN <<1>>
                                      ELSE Append(@, NextPage)]
    /\ pc' = IF pc = "run" THEN "idle" ELSE "done"
    /\ UNCHANGED <<file, fileBefore, entries, runs, stamp, total_participants,
                   html, page, parsed>>

\* Characters of text written as one string per character
MainFiles ==
    { NoFile,
      [exists |-> TRUE, data |-> <<>>],
      [exists |-> TRUE, data |-> <<"a", ",", "5", ",", "2", "\r", "\n">>],
      [exists |-> TRUE, data |-> <<"a", ",", "5", "\n", "b", ",", "7", ",", "x", "\n">>],
      [exists |-> TRUE, data |-> <<"a", ",", "x", "\n", "b", "\n">>],
      [exists |-> TRUE,
       data |-> <<"a", ",", "5", ",", "\r", "\n", "b", "\r", "\n",
                  " ", "c", ",", "0", "6", ",", " ", "1", "\r", "\n">>] }

Init ==
    /\ pc = "idle"
    /\ file \in MainFiles
    /\ fileBefore = file
    /\ entries = <<>>
    /\ runs = 0
    /\ failed = FALSE
    /\ stamp = <<>>
    /\ total_participants = 0
    /\ est = EstInit
    /\ html = [rows |-> <<>>, table |-> -1, links |-> {}]
    /\ page = 1
    /\ parsed = NoPage

Next ==
    \/ StartRun
    \/ FetchFirst(MainSite)
    \/ FetchSecond(MainSite)
    \/ FetchFail

\* Runs of main, one after the other, on data.csv
Spec == Init /\ [][Next]_vars

(***************************************************************************)
(* find_participants_for_name called on its own, for every short name      *)
(***************************************************************************)
NameChars == {"a", " ", "ü"}

Names == SeqsUpTo(NameChars, MaxNameLen)

InitName ==
    /\ pc = "call"
    /\ \E n \in Names : est = CallName(EstInit, n)
    /\ file = NoFile
    /\ fileBefore = NoFile
    /\ entries = <<>>
    /\ runs = 0
    /\ failed = FALSE
    /\ stamp = <<>>
    /\ total_participants = 0
    /\ html = [rows |-> <<>>, table |-> -1, links |-> {}]
    /\ page = 1
    /\ parsed = NoPage

NextName ==
    \/ FetchFirst(FullSite)
    \/ FetchSecond(FullSite)
    \/ FetchFail

SpecName == InitName /\ [][NextName]_vars

(***************************************************************************)
(* parse_page on every page number and markup                              *)
(***************************************************************************)
Parse ==
    /\ pc = "input"
    /\ parsed' = parse_page(html, page)
    /\ pc' = "parsed"
    /\ UNCHANGED <<file, fileBefore, entries, runs, failed, stamp,
                   total_participants, est, html, page>>

InitParse ==
    /\ pc = "input"
    /\ html \in FullSite
    /\ page \in 1..MaxPage
    /\ parsed = NoPage
    /\ file = NoFile
    /\ fileBefore = NoFile
    /\ entries = <<>>
    /\ runs = 0
    /\ failed = FALSE
    /\ stamp = <<>>
    /\ total_participants = 0
    /\ est = EstInit

NextParse == Parse

SpecParse == InitParse /\ [][NextParse]_vars

(***************************************************************************)
(* load_entries, then write_entries of what it returned, on small files    *)
(***************************************************************************)
LineBodies ==
    { <<>>,
      <<"a">>,
      <<"a", ",", "1">>,
      <<"a", ",", "1", ",">>,
      <<"a", ",", "1", "0", ",", "2">>,
      <<" ", "a", ",", "0", "1", ",", "x">>,
      <<"b", ",", "x", ",", "1">>,
      <<" ", ",", "1", ",", "2">>,
      <<"b", ",", "-", "1", ",", " ", "2">>,
      <<"b", ",", "3", ",", " ">> }

LineEnds == { <<>>, <<"\n">>, <<"\r", "\n">> }

Lines == {b \o e : b \in LineBodies, e \in LineEnds}

StoreFiles ==
    {NoFile} \cup {[exists |-> TRUE, data |-> Concat(ls)] : ls \in SeqsUpTo(Lines, MaxLines)}

Load ==
    /\ pc = "start"
    /\ entries' = load_entries(file)
    /\ pc' = "loaded"
    /\ UNCHANGED <<file, fileBefore, runs, failed, stamp, total_participants,
                   est, html, page, parsed>>

Save ==
    /\ pc = "loaded"
    /\ file' = write_entries(entries)
    /\ pc' = "saved"
    /\ UNCHANGED <<fileBefore, entries, runs, failed, stamp, total_participants,
                   est, html, page, parsed>>

InitStore ==
    /\ pc = "start"
    /\ file \in StoreFiles
    /\ fileBefore = file
    /\ entries = <<>>
    /\ runs = 0
    /\ failed = FALSE
    /\ stamp = <<>>
    /\ total_participants = 0
    /\ est = EstInit
    /\ html = [rows |-> <<>>, table |-> -1, links |-> {}]
    /\ page = 1
    /\ parsed = NoPage

NextStore ==
    \/ Load
    \/ Save

SpecStore == InitStore /\ [][NextStore]_vars

(***************************************************************************)
(* Properties                                                              *)
(***************************************************************************)
\* A run of main has ended without an exception
Succeeded == pc = "idle" /\ runs > 0 /\ ~failed

\* The records a log holds: its lines that load_entries reads as entries
Records(f) == IF f.exists THEN ReadEntries(CsvRows(f.data)) ELSE <<>>

\* The record main computed in the run that just ended
NewRecord == <<stamp, total_participants, <<est.result>>>>

\* C1: whenever find_total_participants has returned, its value is 0 if page 1
\* had no rows, page 1's row count if page 1 advertised a last page <= 1, and
\* otherwise (L - 1) * pageSize + r with pageSize page 1's row count, r and L
\* the row count and the advertised last page of the second fetch, which asked
\* for the last page page 1 advertised.
C1_TotalFromLastPageFetch ==
    est.returned =>
        LET fp == est.first_page
            lp == est.last_page_result
        IN  /\ fp.page = 1
            /\ fp.participant_count = 0 => est.ret = 0
            /\ fp.participant_count # 0 /\ fp.last_page <= 1
                  => est.ret = fp.participant_count
            /\ fp.participant_count # 0 /\ fp.last_page > 1
                  => /\ lp.page = fp.last_page
                     /\ est.ret = (lp.last_page - 1) * fp.participant_count
                                  + lp.participant_count

C1_Witness ==
    /\ est.returned
    /\ est.first_page.participant_count = 2
    /\ est.first_page.last_page = 2
    /\ est.last_page_result.last_page = 3
    /\ est.last_page_result.participant_count = 1
    /\ est.ret = 5

\* C2: a call of find_total_participants never asks for a third page; when it
\* has returned it has asked for page 1 and page 1's advertised last page if
\* page 1 had rows and advertised a last page > 1, and for page 1 alone
\* otherwise; a page 1 without rows makes it return 0 and is no failure.
C2_FetchCount ==
    LET fp == est.first_page
    IN  /\ Len(est.fetched) <= 2
        /\ est.returned =>
              est.fetched = IF fp.participant_count > 0 /\ fp.last_page > 1
                            THEN <<1, fp.last_page>> ELSE <<1>>
        /\ fp.page = 1 /\ fp.participant_count = 0
              => est.returned /\ est.ret = 0 /\ ~failed /\ est.fetched = <<1>>

C2_Witness ==
    /\ est.returned
    /\ est.fetched = <<1, 2>>
    /\ est.last_page_result.last_page = 3

\* C3: find_participants_for_name(name) runs Strategy A a second time, on name
\* without its first character, exactly when the first run returned 0 and name
\* has no space and more than one character, and never a third time; it
\* returns the second count if that is positive and the first otherwise.
C3_OneRetry ==
    LET retry == est.count = 0 /\ ~(\E i \in 1..Len(est.name) : est.name[i] = " ")
                 /\ Len(est.name) > 1
    IN  /\ Len(est.queries) <= 2
        /\ est.named =>
              /\ est.queries = IF retry
                               THEN <<build_name_url_template(est.name),
                                      build_name_url_template(Tail(est.name))>>
                               ELSE <<build_name_url_template(est.name)>>
              /\ est.result = IF retry /\ est.fallback_count > 0
                              THEN est.fallback_count ELSE est.count

C3_Witness ==
    /\ est.named
    /\ est.name = <<"ü", "a">>
    /\ Len(est.queries) = 2
    /\ est.fallback_count = 0
    /\ est.result = 0

\* C4: once a fetch has failed in a run of main, the run is over, no fetch is
\* pending and data.csv is what it was when the run started.
C4_FailedFetchLeavesLog ==
    failed => pc = "idle" /\ est.ftp = "none" /\ ~est.named /\ file = fileBefore

C4_Witness ==
    /\ failed
    /\ est.call = "fallback"
    /\ Len(est.fetched) = 2
    /\ fileBefore.exists
    /\ runs = 2

\* C5: no run of main appends a record whose total is smaller than the total
\* of the record before it.
C5_NeverAppendsSmallerTotal ==
    Succeeded => entries[Len(entries)][2] >= entries[Len(entries) - 1][2]

\* C6 as stated: after a successful run the log holds the records it held
\* before the run, followed by the new record.
C6_ExactlyOneAppend ==
    Succeeded => Records(file) = Records(fileBefore) \o <<NewRecord>>

\* C6: after a successful run of main the log holds the entries load_entries
\* returned for the log before the run (its records, or the seed record when
\* it had none), in order and unchanged, followed by the one new record.
C6_LoadedPlusOne ==
    Succeeded => Records(file) = load_entries(fileBefore) \o <<NewRecord>>

C6_Witness ==
    /\ Succeeded
    /\ runs = 2
    /\ Len(Records(file)) = 3
    /\ Records(file)[1] = DEFAULT_ENTRY

\* A well-formed log as C7 has it: lines timestamp,total or
\* timestamp,total,namedSubset, total an integer, the third field an integer
\* or empty.
WellFormedRow(row) ==
    /\ Len(row) \in {2, 3}
    /\ row[1] # <<>>
    /\ ParseInt(row[2]) # <<>>
    /\ Len(row) = 3 => row[3] = <<>> \/ ParseInt(row[3]) # <<>>

WellFormed(f) ==
    /\ f.exists
    /\ f.data # <<>>
    /\ \A i \in 1..Len(CsvRows(f.data)) : WellFormedRow(CsvRows(f.data)[i])

CanonicalInt(s) == ParseInt(s) # <<>> /\ IntStr(ParseInt(s)[1]) = s

RECURSIVE JoinCrLf(_)
JoinCrLf(rows) ==
    IF rows = <<>> THEN <<>>
    ELSE LET r == Head(rows)
         IN  r[1] \o <<",">> \o r[2] \o <<",">> \o r[3] \o <<"\r", "\n">>
                  \o JoinCrLf(Tail(rows))

\* Every line has three fields, a timestamp without surrounding blanks, a
\* total and a third field written as str() writes an int (or an empty third
\* field), and ends with \r\n.
Canonical(f) ==
    LET rows == CsvRows(f.data)
    IN  /\ WellFormed(f)
        /\ \A i \in 1..Len(rows) :
              /\ Len(rows[i]) = 3
              /\ Strip(rows[i][1]) = rows[i][1]
              /\ CanonicalInt(rows[i][2])
              /\ rows[i][3] = <<>> \/ CanonicalInt(rows[i][3])
        /\ JoinCrLf(rows) = f.data

\* C7 as stated: write_entries of load_entries reproduces every well-formed
\* log byte for byte.
C7_RoundTripWellFormed ==
    pc = "saved" /\ WellFormed(fileBefore) => file = fileBefore

\* C7: write_entries of load_entries reproduces byte for byte every log whose
\* lines all have three fields in the writer's form and end with \r\n.
C7_RoundTripCanonical ==
    pc = "saved" /\ Canonical(fileBefore) => file = fileBefore

C7_Witness ==
    /\ pc = "saved"
    /\ Canonical(fileBefore)
    /\ Len(CsvRows(fileBefore.data)) = 2
    /\ CsvRows(fileBefore.data)[1][3] = <<>>
    /\ CsvRows(fileBefore.data)[2][3] # <<>>
    /\ file = fileBefore

\* C8: load_entries of a missing or empty log is the one seed record, with an
\* absent third value.
C8_SeedHasNoNamedSubset ==
    pc = "loaded" /\ (~fileBefore.exists \/ fileBefore.data = <<>>)
        => entries = <<<<SeedTimestamp, 1784, <<>>>>>>

\* C9 as stated: advertisedLastPage is the largest numeric label, and the page
\* number only when there is no numeric label.
C9_MaxLabelElsePage ==
    pc = "parsed" =>
        LET labels == {x \in html.links : IsDigitStr(x)}
        IN  parsed.last_page = IF labels = {} THEN page
                               ELSE Max({NatVal(x) : x \in labels})

\* C9: advertisedLastPage is the largest of the page number and the numeric
\* labels: it is at least each of them and is one of them.
C9_MaxOfPageAndLabels ==
    pc = "parsed" =>
        LET labels == {x \in html.links : IsDigitStr(x)}
        IN  /\ parsed.last_page >= page
            /\ \A x \in labels : parsed.last_page >= NatVal(x)
            /\ parsed.last_page = page
                  \/ \E x \in labels : parsed.last_page = NatVal(x)

C9_Witness ==
    /\ pc = "parsed"
    /\ page = 3
    /\ html.links = {<<"1">>, <<"2">>, <<">">>}
    /\ parsed.last_page = 3

\* The lines C10 counts: at least two fields, an integer second field
HasIntegerCount(row) == Len(row) >= 2 /\ ParseInt(row[2]) # <<>>

\* ... which load_entries keeps only with a non-blank first field
Qualifies(row) == HasIntegerCount(row) /\ Strip(row[1]) # <<>>

NamedSubsetOf(row) ==
    IF Len(row) >= 3 /\ Strip(row[3]) # <<>> /\ ParseInt(row[3]) # <<>>
    THEN ParseInt(row[3]) ELSE <<>>

RecordOf(row) == <<Strip(row[1]), ParseInt(row[2])[1], NamedSubsetOf(row)>>

NonEmptyLog(f) == f.exists /\ f.data # <<>>

\* C10 as stated: one record per line with at least two fields and an integer
\* second field, in file order.
C10_OneRecordPerCountLine ==
    pc = "loaded" /\ NonEmptyLog(fileBefore) =>
        LET lines == SelectSeq(CsvRows(fileBefore.data), HasIntegerCount)
        IN  /\ Len(entries) = Len(lines)
            /\ \A i \in 1..Len(lines) : entries[i] = RecordOf(lines[i])

\* C10: for a non-empty log load_entries returns, in file order, one record
\* per line with at least two fields, a non-blank first field and an integer
\* second field (the seed record alone when there is no such line); the third
\* value is the third field when it is present, non-blank and an integer, and
\* absent otherwise.
C10_OneRecordPerValidLine ==
    pc = "loaded" /\ NonEmptyLog(fileBefore) =>
        LET lines == SelectSeq(CsvRows(fileBefore.data), Qualifies)
        IN  IF lines = <<>> THEN entries = <<DEFAULT_ENTRY>>
            ELSE /\ Len(entries) = Len(lines)
                 /\ \A i \in 1..Len(lines) : entries[i] = RecordOf(lines[i])

C10_Witness ==
    /\ pc = "loaded"
    /\ Len(CsvRows(fileBefore.data)) = 2
    /\ CsvRows(fileBefore.data)[1] = <<<<"b">>, <<"x">>, <<"1">>>>
    /\ CsvRows(fileBefore.data)[2] = <<<<" ", "a">>, <<"0", "1">>, <<"x">>>>
    /\ entries = <<<<<<"a">>, 1, <<>>>>>>

====
